---- MODULE Spec2Model ----
(***************************************************************************)
(* State-machine model of helix-view/src/tree.rs: the set of tab           *)
(* workspaces (Tabs), each a split tree (Tree) over one shared node arena  *)
(* (Tabs.nodes), with the layout pass (recalculate_tab), the traversal     *)
(* (Traverse), the directional search (find_split_in_direction) and the    *)
(* mutating operations insert / split / remove / transpose / swap /        *)
(* resize.                                                                  *)
(***************************************************************************)
EXTENDS Integers, Sequences, FiniteSets, TLC

VARIABLES
    nodes,            \* Tabs.nodes : HopSlotMap<ViewId, Node>
    trees,            \* Tabs.trees : HopSlotMap<TabId, Tree>
    focus,            \* Tabs.focus : TabId, the active tab
    nextKey,          \* next fresh ViewId the arena hands out
    nextTab,          \* next fresh TabId the tab map hands out
    aborted           \* TRUE once an operation has panicked

vars == <<nodes, trees, focus, nextKey, nextTab, aborted>>

----------------------------------------------------------------------------
(* Bounds of the model *)

\* keys the node arena may hand out in a run with a single tab (the root,
\* panes and containers)
MaxKeys == 5
\* keys the node arena may hand out in a run that opens a second tab
MaxSharedKeys == 4
\* tabs that may be opened in one run
MaxTabs == 2
\* keys the node arena may hand out in a run on the 180x80 terminal
MaxScenarioKeys == 7
\* keys the node arena may hand out in a run of the focus operations
MaxFocusKeys == 5

(* Program constants *)

\* `let inner_gap = 1u16;`
inner_gap == 1

\* u16 arithmetic is modulo 2^16
U16 == 2 ^ 16

\* ViewId::default(): the null key, never handed out by the arena
NullKey == 0 - 1

\* Option::None for an Option<ViewId>
None == 0

----------------------------------------------------------------------------
(* Geometry: Rect { x, y, width, height }, all u16 *)

Rect(x, y, w, h) == [x |-> x, y |-> y, width |-> w, height |-> h]

RectDefault == Rect(0, 0, 0, 0)

\* terminal rectangles offered to Tabs::new and to resize
Areas == { Rect(0, 0, 7, 5), Rect(1, 2, 3, 4) }

Add16(a, b) == (a + b) % U16
Sub16(a, b) == (a - b) % U16

\* `x as i16`
AsI16(v) == IF v >= U16 \div 2 THEN v - U16 ELSE v

\* i16 subtraction followed by .abs(), wrapping
AbsDiffI16(a, b) ==
    LET d == AsI16((AsI16(a) - AsI16(b)) % U16)
    IN  IF d < 0 THEN AsI16((0 - d) % U16) ELSE d

----------------------------------------------------------------------------
(* Nodes *)

Layouts == {"Horizontal", "Vertical"}
Directions == {"Up", "Down", "Left", "Right"}

\* Node::container(layout), with the parent given; a container holds no View
ContainerNode(parent, layout) ==
    [parent |-> parent, kind |-> "Container", layout |-> layout,
     children |-> <<>>, area |-> RectDefault, view |-> NullKey]

\* Node::view(view), with the parent given; a pane has no layout or children.
\* `view` is View.id, the identity of the content the node holds: the null
\* key until the caller writes the node's key into it
ViewNode(parent) ==
    [parent |-> parent, kind |-> "View", layout |-> "NoLayout",
     children |-> <<>>, area |-> RectDefault, view |-> NullKey]

\* the arena `ns` with `key` bound to `node`
WithNode(ns, key, node) ==
    [k \in DOMAIN ns \cup {key} |-> IF k = key THEN node ELSE ns[k]]

\* the arena `ns` without `key`
WithoutNode(ns, key) == [k \in DOMAIN ns \ {key} |-> ns[k]]

IsContainer(ns, k) == k \in DOMAIN ns /\ ns[k].kind = "Container"
IsView(ns, k) == k \in DOMAIN ns /\ ns[k].kind = "View"

\* children.iter().position(|&child| child == x): 0-based, -1 for None
Position(s, x) ==
    IF \E i \in 1..Len(s) : s[i] = x
    THEN (CHOOSE i \in 1..Len(s) : s[i] = x /\ \A j \in 1..(i - 1) : s[j] # x) - 1
    ELSE 0 - 1

\* Vec::insert(pos, x), pos 0-based
InsertAt(s, pos, x) == SubSeq(s, 1, pos) \o <<x>> \o SubSeq(s, pos + 1, Len(s))

\* Vec::remove(pos), pos 0-based
RemoveAt(s, pos) == SubSeq(s, 1, pos) \o SubSeq(s, pos + 2, Len(s))

Reverse(s) == [i \in 1..Len(s) |-> s[Len(s) + 1 - i]]

----------------------------------------------------------------------------
(* Traversal: struct Traverse, an explicit stack seeded with the root.     *)
(* The top of the stack is the last element of the sequence.               *)

RECURSIVE TraverseNext(_, _)
\* Iterator::next repeated to exhaustion: the panes in depth-first pre-order
TraverseNext(ns, stack) ==
    IF stack = <<>> THEN <<>>
    ELSE LET key  == stack[Len(stack)]
             rest == SubSeq(stack, 1, Len(stack) - 1)
         IN  IF ns[key].kind = "View"
             THEN <<key>> \o TraverseNext(ns, rest)
             ELSE TraverseNext(ns, rest \o Reverse(ns[key].children))

RECURSIVE TraverseNextBack_Forward(_, _)
\* next_back that pushes the children as next does, last child first
TraverseNextBack_Forward(ns, stack) ==
    IF stack = <<>> THEN <<>>
    ELSE LET key  == stack[Len(stack)]
             rest == SubSeq(stack, 1, Len(stack) - 1)
         IN  IF ns[key].kind = "View"
             THEN <<key>> \o TraverseNextBack_Forward(ns, rest)
             ELSE TraverseNextBack_Forward(ns, rest \o Reverse(ns[key].children))

RECURSIVE TraverseNextBack(_, _)
\* DoubleEndedIterator::next_back repeated to exhaustion (what .rev() drives)
TraverseNextBack(ns, stack) ==
    IF stack = <<>> THEN <<>>
    ELSE LET key  == stack[Len(stack)]
             rest == SubSeq(stack, 1, Len(stack) - 1)
         IN  IF ns[key].kind = "View"
             THEN <<key>> \o TraverseNextBack(ns, rest)
             ELSE TraverseNextBack(ns, rest \o ns[key].children)

\* Tabs::traverse(tab): Traverse::new seeds the stack with tree.root
traverse(ns, ts, tab) == TraverseNext(ns, <<ts[tab].root>>)

\* Tabs::traverse(tab).rev()
traverse_rev(ns, ts, tab) == TraverseNextBack(ns, <<ts[tab].root>>)

\* Tabs::tab_views(tab): for each key of the tree's member-set that names a
\* pane, the pane's View (by its id) and whether the key is the tree's focus
tab_views(ns, ts, tab) ==
    {<<ns[key].view, ts[tab].focus = key>> :
        key \in {k \in ts[tab].nodes \cap DOMAIN ns : ns[k].kind = "View"}}

\* the unwrap() of tab_views on a member key that the arena does not hold
tab_views_panics(ns, ts, tab) == ~(ts[tab].nodes \subseteq DOMAIN ns)

\* .skip_while(|id| id != x).skip(1).next(): the element after the first x
AfterFirst(s, x) ==
    LET p == Position(s, x) + 1
    IN  IF p >= 1 /\ p < Len(s) THEN s[p + 1] ELSE None

\* Tabs::prev(tab); None stands for the unwrap() of an empty traversal
prev(ns, ts, tab) ==
    LET views == traverse_rev(ns, ts, tab)
        nxt   == AfterFirst(views, ts[tab].focus)
    IN  IF nxt # None THEN nxt
        ELSE IF views = <<>> THEN None ELSE views[1]

\* Tabs::next(tab); None stands for the unwrap() of an empty traversal
next(ns, ts, tab) ==
    LET views == traverse(ns, ts, tab)
        nxt   == AfterFirst(views, ts[tab].focus)
    IN  IF nxt # None THEN nxt
        ELSE IF views = <<>> THEN None ELSE views[1]

----------------------------------------------------------------------------
(* Layout pass: Tabs::recalculate_tab and Tabs::recalculate.               *)
(* A pass yields the arena, the trees, `panic` (the pass hit a panic in    *)
(* any build) and `ovf` (a u16 operation left its range: a panic under     *)
(* overflow checks, a wrapped value without them).                         *)

Result(ns, ts, panic, ovf) ==
    [nodes |-> ns, trees |-> ts, panic |-> panic, ovf |-> ovf, ret |-> "unit"]

\* the result `r` with the value the call returns
Returning(r, v) == [r EXCEPT !.ret = v]

\* Tabs::tab_is_empty(tab)
tab_is_empty(ns, ts, tab) == ns[ts[tab].root].children = <<>>

\* indexing self.nodes[tab.root] in tab_is_empty panics when the root is gone
tab_is_empty_panics(ns, ts, tab) == ~IsContainer(ns, ts[tab].root)

\* HorizontalAreas without the last child taking the remainder
HorizontalAreas_NoRemainder(area, len) ==
    LET height == area.height \div len
    IN  [i \in 1..len |->
           Rect(area.x, Add16(area.y, (i - 1) * height), area.width, height)]

\* Layout::Horizontal arm: the rectangles of the `len` children of a
\* container with rectangle `area`
HorizontalAreas(area, len) ==
    LET height == area.height \div len
    IN  [i \in 1..len |->
           LET child_y == Add16(area.y, (i - 1) * height)
           IN  Rect(area.x, child_y, area.width,
                    IF i = len
                    THEN Sub16(Add16(area.y, area.height), child_y)
                    ELSE height)]

\* a u16 operation of the Horizontal arm leaves 0..2^16-1
HorizontalOverflows(area, len) ==
    LET height == area.height \div len
    IN  \/ area.y + len * height >= U16
        \/ area.y + area.height >= U16
        \/ area.y + area.height < area.y + (len - 1) * height

\* VerticalAreas with a gap kept after the last child as well
VerticalAreas_GapAfterLast(area, len) ==
    LET width == area.width \div len
    IN  [i \in 1..len |->
           LET child_x == Add16(area.x, (i - 1) * Add16(width, inner_gap))
           IN  Rect(child_x, area.y,
                    IF i = len
                    THEN Sub16(Sub16(Add16(area.x, area.width), child_x), inner_gap)
                    ELSE width,
                    area.height)]

\* Layout::Vertical arm: the rectangles of the `len` children of a
\* container with rectangle `area`
VerticalAreas(area, len) ==
    LET width == area.width \div len
    IN  [i \in 1..len |->
           LET child_x == Add16(area.x, (i - 1) * Add16(width, inner_gap))
           IN  Rect(child_x, area.y,
                    IF i = len
                    THEN Sub16(Add16(area.x, area.width), child_x)
                    ELSE width,
                    area.height)]

\* a u16 operation of the Vertical arm leaves 0..2^16-1
VerticalOverflows(area, len) ==
    LET width == area.width \div len
    IN  \/ width + inner_gap >= U16
        \/ area.x + len * (width + inner_gap) >= U16
        \/ area.x + area.width >= U16
        \/ area.x + area.width < area.x + (len - 1) * (width + inner_gap)

RECURSIVE LayoutLoop(_, _, _)
\* the `while let Some((key, area)) = stack.pop()` loop of recalculate_tab;
\* yields [nodes, panic, ovf]
LayoutLoop(ns, stack, ovf) ==
    IF stack = <<>> THEN [nodes |-> ns, panic |-> FALSE, ovf |-> ovf]
    ELSE LET key  == stack[Len(stack)][1]
             area == stack[Len(stack)][2]
             rest == SubSeq(stack, 1, Len(stack) - 1)
         IN  IF key \notin DOMAIN ns
             THEN [nodes |-> ns, panic |-> TRUE, ovf |-> ovf]
             ELSE IF ns[key].kind = "View"
             THEN LayoutLoop([ns EXCEPT ![key].area = area], rest, ovf)
             ELSE LET children == ns[key].children
                      len      == Len(children)
                      ns1      == [ns EXCEPT ![key].area = area]
                  IN  IF len = 0
                      THEN \* area.height / 0: division by zero
                           [nodes |-> ns1, panic |-> TRUE, ovf |-> ovf]
                      ELSE IF ns[key].layout = "Horizontal"
                      THEN LET as == HorizontalAreas(area, len)
                           IN  LayoutLoop(ns1,
                                  rest \o [i \in 1..len |-> <<children[i], as[i]>>],
                                  ovf \/ HorizontalOverflows(area, len))
                      ELSE LET as == VerticalAreas(area, len)
                           IN  LayoutLoop(ns1,
                                  rest \o [i \in 1..len |-> <<children[i], as[i]>>],
                                  ovf \/ VerticalOverflows(area, len))

\* recalculate_tab laying every workspace out for the rectangle of the
\* first one
recalculate_tab_SharedArea(ns, ts, tab) ==
    IF tab_is_empty_panics(ns, ts, tab) THEN Result(ns, ts, TRUE, FALSE)
    ELSE IF tab_is_empty(ns, ts, tab)
    THEN Result(ns, [ts EXCEPT ![tab].focus = ts[tab].root], FALSE, FALSE)
    ELSE LET first == CHOOSE k \in DOMAIN ts : \A j \in DOMAIN ts : k <= j
             r == LayoutLoop(ns, ts[tab].stack \o <<<<ts[tab].root, ts[first].area>>>>, FALSE)
         IN  Result(r.nodes, [ts EXCEPT ![tab].stack = <<>>], r.panic, r.ovf)

\* Tabs::recalculate_tab(tab)
recalculate_tab(ns, ts, tab) ==
    IF tab_is_empty_panics(ns, ts, tab) THEN Result(ns, ts, TRUE, FALSE)
    ELSE IF tab_is_empty(ns, ts, tab)
    THEN Result(ns, [ts EXCEPT ![tab].focus = ts[tab].root], FALSE, FALSE)
    ELSE LET r == LayoutLoop(ns, ts[tab].stack \o <<<<ts[tab].root, ts[tab].area>>>>, FALSE)
         IN  Result(r.nodes, [ts EXCEPT ![tab].stack = <<>>], r.panic, r.ovf)

RECURSIVE for_each_key_recalculate(_, _, _)
\* for_each_key_mut(|this, tab| this.recalculate_tab(tab)) over the tabs
\* still to visit, in key order
for_each_key_recalculate(ns, ts, keys) ==
    IF keys = {} THEN Result(ns, ts, FALSE, FALSE)
    ELSE LET tab == CHOOSE k \in keys : \A j \in keys : k <= j
             r   == recalculate_tab(ns, ts, tab)
         IN  IF r.panic THEN r
             ELSE LET q == for_each_key_recalculate(r.nodes, r.trees, keys \ {tab})
                  IN  Result(q.nodes, q.trees, q.panic, r.ovf \/ q.ovf)

\* Tabs::recalculate()
recalculate(ns, ts) == for_each_key_recalculate(ns, ts, DOMAIN ts)

----------------------------------------------------------------------------
(* Structural operations, as functions of the arena `ns` and the trees     *)
(* `ts`. Each yields a Result; `panic` stands for an unwrap() of None, an  *)
(* index of a missing key or an unreachable!().                            *)

Panic(ns, ts) == Result(ns, ts, TRUE, FALSE)

\* new_tree without `self.nodes[root].parent = root`
new_tree_NoSelfParent(ns, ts, area, root, tab) ==
    LET ns1  == WithNode(ns, root, ContainerNode(NullKey, "Vertical"))
        tree == [id |-> tab, root |-> root, focus |-> root, area |-> area,
                 nodes |-> {root}, stack |-> <<>>]
    IN  Result(ns1, [t \in DOMAIN ts \cup {tab} |-> IF t = tab THEN tree ELSE ts[t]],
               FALSE, FALSE)

\* Tabs::new_tree(area): the arena and trees with a fresh tab `tab` whose
\* root is the fresh key `root`
new_tree(ns, ts, area, root, tab) ==
    LET ns1  == WithNode(ns, root, [ContainerNode(root, "Vertical") EXCEPT !.parent = root])
        tree == [id |-> tab, root |-> root, focus |-> root, area |-> area,
                 nodes |-> {root}, stack |-> <<>>]
    IN  Result(ns1, [t \in DOMAIN ts \cup {tab} |-> IF t = tab THEN tree ELSE ts[t]],
               FALSE, FALSE)

\* InsertAfterFocus with the new node pushed at the end of the list
InsertAfterFocus_Append(ns, parent, at, node) ==
    [ns EXCEPT ![parent].children = Append(@, node)]

\* InsertAfterFocus with `pos` in place of `pos + 1`: the new node goes
\* before the focus
InsertAfterFocus_Before(ns, parent, at, node) ==
    LET children == ns[parent].children
        pos      == IF children = <<>> THEN 0 ELSE Position(children, at)
    IN  [ns EXCEPT ![parent].children = InsertAt(children, pos, node)]

\* the sibling-insertion step shared by insert and the same-axis arm of
\* split: `node` goes right after `at` in the children of `parent`
InsertAfterFocus(ns, parent, at, node) ==
    LET children == ns[parent].children
        pos      == IF children = <<>> THEN 0 ELSE Position(children, at) + 1
    IN  [ns EXCEPT ![parent].children = InsertAt(children, pos, node)]

\* the .position(..).unwrap() of the sibling-insertion step fails
InsertAfterFocusPanics(ns, parent, at) ==
    ns[parent].children # <<>> /\ Position(ns[parent].children, at) < 0

\* the bookkeeping that ends insert and split: focus the new node and
\* register it in the tree's member-set
FocusAndRegister(ts, tab, node) ==
    [ts EXCEPT ![tab].focus = node, ![tab].nodes = @ \cup {node}]

\* Tabs::insert(tab, view), the arena handing out key `node`
insert(ns, ts, tab, node) ==
    LET at == ts[tab].focus
    IN  IF at \notin DOMAIN ns THEN Panic(ns, ts)
        ELSE LET parent == ns[at].parent
             IN  IF ~IsContainer(ns, parent) THEN Panic(ns, ts)
                 ELSE IF InsertAfterFocusPanics(ns, parent, at) THEN Panic(ns, ts)
                 ELSE Returning(recalculate(
                        InsertAfterFocus(
                           WithNode(ns, node, [ViewNode(parent) EXCEPT !.view = node]),
                           parent, at, node),
                        FocusAndRegister(ts, tab, node)), node)

\* SplitInto without `self.nodes[focus].parent = split`
SplitInto_KeepParent(ns, parent, at, node, split, layout) ==
    LET ns1 == WithNode(ns, split,
                  [ContainerNode(parent, layout) EXCEPT !.children = <<at, node>>])
        ns2 == [ns1 EXCEPT ![node].parent = split]
        pos == Position(ns2[parent].children, at)
    IN  [ns2 EXCEPT ![parent].children = [@ EXCEPT ![pos + 1] = split]]

\* SplitInto with the two pushes in the other order
SplitInto_NewFirst(ns, parent, at, node, split, layout) ==
    LET ns1 == WithNode(ns, split,
                  [ContainerNode(parent, layout) EXCEPT !.children = <<node, at>>])
        ns2 == [ns1 EXCEPT ![at].parent = split, ![node].parent = split]
        pos == Position(ns2[parent].children, at)
    IN  [ns2 EXCEPT ![parent].children = [@ EXCEPT ![pos + 1] = split]]

\* SplitInto with `split.parent = focus` in place of `split.parent = parent`:
\* the focus and the new container are each other's parent
SplitInto_ParentIsFocus(ns, parent, at, node, split, layout) ==
    LET ns1 == WithNode(ns, split,
                  [ContainerNode(at, layout) EXCEPT !.children = <<at, node>>])
        ns2 == [ns1 EXCEPT ![at].parent = split, ![node].parent = split]
        pos == Position(ns2[parent].children, at)
    IN  [ns2 EXCEPT ![parent].children = [@ EXCEPT ![pos + 1] = split]]

\* the other-axis arm of split: a new container `split` takes the place of
\* `at` in `parent` and holds `at` and `node`
SplitInto(ns, parent, at, node, split, layout) ==
    LET ns1 == WithNode(ns, split,
                  [ContainerNode(parent, layout) EXCEPT !.children = <<at, node>>])
        ns2 == [ns1 EXCEPT ![at].parent = split, ![node].parent = split]
        pos == Position(ns2[parent].children, at)
    IN  [ns2 EXCEPT ![parent].children = [@ EXCEPT ![pos + 1] = split]]

\* Tabs::split(tab, view, layout), the arena handing out `node` and then,
\* in the other-axis arm, `container`
split(ns, ts, tab, layout, node, container) ==
    LET at == ts[tab].focus
    IN  IF at \notin DOMAIN ns THEN Panic(ns, ts)
        ELSE LET parent == ns[at].parent
                 ns0    == WithNode(ns, node, [ViewNode(NullKey) EXCEPT !.view = node])
             IN  IF ~IsContainer(ns, parent) THEN Panic(ns, ts)
                 ELSE IF ns[parent].layout = layout
                 THEN IF InsertAfterFocusPanics(ns, parent, at) THEN Panic(ns, ts)
                      ELSE Returning(recalculate(
                             [InsertAfterFocus(ns0, parent, at, node)
                                 EXCEPT ![node].parent = parent],
                             FocusAndRegister(ts, tab, node)), node)
                 ELSE IF Position(ns[parent].children, at) < 0 THEN Panic(ns, ts)
                      ELSE Returning(recalculate(
                             SplitInto(ns0, parent, at, node, container, layout),
                             FocusAndRegister(ts, tab, node)), node)

\* whether split allocates a container key as well
SplitMakesContainer(ns, ts, tab, layout) ==
    LET at == ts[tab].focus
    IN  /\ at \in DOMAIN ns
        /\ IsContainer(ns, ns[at].parent)
        /\ ns[ns[at].parent].layout # layout

\* the focus hand-over that opens remove
RemoveFocus(ns, ts, active, tab, index) ==
    IF active = ts[tab].id /\ ts[tab].focus = index
    THEN [ts EXCEPT ![tab].focus = prev(ns, ts, tab)]
    ELSE ts

RECURSIVE RemoveLoop_KeepContainers(_, _, _, _)
\* RemoveLoop with an emptied container detached but left in the arena
RemoveLoop_KeepContainers(ns, ts, tab, stack) ==
    IF stack = <<>> THEN Result(ns, ts, FALSE, FALSE)
    ELSE LET index     == stack[Len(stack)]
             rest      == SubSeq(stack, 1, Len(stack) - 1)
             parent_id == ns[index].parent
             pos       == Position(ns[parent_id].children, index)
             children  == IF pos >= 0 THEN RemoveAt(ns[parent_id].children, pos)
                          ELSE ns[parent_id].children
             ns1       == [ns EXCEPT ![parent_id].children = children]
             stack1    == IF pos >= 0 /\ children = <<>> /\ parent_id # ts[tab].root
                          THEN rest \o <<parent_id>>
                          ELSE rest
         IN  RemoveLoop_KeepContainers(
                IF ns[index].kind = "View" THEN WithoutNode(ns1, index) ELSE ns1,
                [ts EXCEPT ![tab].nodes = @ \ {index}], tab, stack1)

RECURSIVE RemoveLoop_AnyParent(_, _, _, _)
\* RemoveLoop without the `container.children.is_empty()` test
RemoveLoop_AnyParent(ns, ts, tab, stack) ==
    IF stack = <<>> THEN Result(ns, ts, FALSE, FALSE)
    ELSE LET index     == stack[Len(stack)]
             rest      == SubSeq(stack, 1, Len(stack) - 1)
             parent_id == ns[index].parent
             pos       == Position(ns[parent_id].children, index)
             children  == IF pos >= 0 THEN RemoveAt(ns[parent_id].children, pos)
                          ELSE ns[parent_id].children
             ns1       == [ns EXCEPT ![parent_id].children = children]
             stack1    == IF pos >= 0 /\ parent_id # ts[tab].root
                          THEN rest \o <<parent_id>>
                          ELSE rest
         IN  RemoveLoop_AnyParent(WithoutNode(ns1, index),
                                  [ts EXCEPT ![tab].nodes = @ \ {index}], tab, stack1)

RECURSIVE RemoveLoop_LeakNode(_, _, _, _)
\* RemoveLoop without `self.nodes.remove(index)`: the node is detached from
\* its parent and stays in the arena
RemoveLoop_LeakNode(ns, ts, tab, stack) ==
    IF stack = <<>> THEN Result(ns, ts, FALSE, FALSE)
    ELSE LET index == stack[Len(stack)]
             rest  == SubSeq(stack, 1, Len(stack) - 1)
         IN  IF index \notin DOMAIN ns THEN Panic(ns, ts)
             ELSE LET parent_id == ns[index].parent
                  IN  IF parent_id \notin DOMAIN ns THEN Panic(ns, ts)
                      ELSE LET pos      == Position(ns[parent_id].children, index)
                               detach   == ns[parent_id].kind = "Container" /\ pos >= 0
                               children == IF detach
                                           THEN RemoveAt(ns[parent_id].children, pos)
                                           ELSE ns[parent_id].children
                               ns1      == [ns EXCEPT ![parent_id].children = children]
                               stack1   == IF detach /\ children = <<>>
                                              /\ parent_id # ts[tab].root
                                           THEN rest \o <<parent_id>>
                                           ELSE rest
                           IN  RemoveLoop_LeakNode(ns1,
                                          [ts EXCEPT ![tab].nodes = @ \ {index}],
                                          tab, stack1)

RECURSIVE RemoveLoop(_, _, _, _)
\* the `while let Some(index) = stack.pop()` loop of remove
RemoveLoop(ns, ts, tab, stack) ==
    IF stack = <<>> THEN Result(ns, ts, FALSE, FALSE)
    ELSE LET index == stack[Len(stack)]
             rest  == SubSeq(stack, 1, Len(stack) - 1)
         IN  IF index \notin DOMAIN ns THEN Panic(ns, ts)
             ELSE LET parent_id == ns[index].parent
                  IN  IF parent_id \notin DOMAIN ns THEN Panic(ns, ts)
                      ELSE LET pos      == Position(ns[parent_id].children, index)
                               detach   == ns[parent_id].kind = "Container" /\ pos >= 0
                               children == IF detach
                                           THEN RemoveAt(ns[parent_id].children, pos)
                                           ELSE ns[parent_id].children
                               ns1      == [ns EXCEPT ![parent_id].children = children]
                               stack1   == IF detach /\ children = <<>>
                                              /\ parent_id # ts[tab].root
                                           THEN rest \o <<parent_id>>
                                           ELSE rest
                           IN  RemoveLoop(WithoutNode(ns1, index),
                                          [ts EXCEPT ![tab].nodes = @ \ {index}],
                                          tab, stack1)

\* Tabs::remove(tab, index), `active` being Tabs.focus
remove(ns, ts, active, tab, index) ==
    IF active = ts[tab].id /\ ts[tab].focus = index /\ prev(ns, ts, tab) = None
    THEN Panic(ns, ts)
    ELSE LET r == RemoveLoop(ns, RemoveFocus(ns, ts, active, tab, index), tab, <<index>>)
         IN  IF r.panic THEN r ELSE recalculate(r.nodes, r.trees)

\* transpose without the call of recalculate
transpose_NoLayout(ns, ts, tab) ==
    LET at == ts[tab].focus
    IN  IF at \notin DOMAIN ns THEN Panic(ns, ts)
        ELSE LET parent == ns[at].parent
             IN  IF parent \notin DOMAIN ns THEN Panic(ns, ts)
                 ELSE IF ns[parent].kind # "Container" THEN Result(ns, ts, FALSE, FALSE)
                 ELSE Result([ns EXCEPT ![parent].layout =
                                 IF @ = "Vertical" THEN "Horizontal" ELSE "Vertical"],
                             ts, FALSE, FALSE)

\* Tabs::transpose(tab)
transpose(ns, ts, tab) ==
    LET at == ts[tab].focus
    IN  IF at \notin DOMAIN ns THEN Panic(ns, ts)
        ELSE LET parent == ns[at].parent
             IN  IF parent \notin DOMAIN ns THEN Panic(ns, ts)
                 ELSE IF ns[parent].kind # "Container" THEN Result(ns, ts, FALSE, FALSE)
                 ELSE recalculate(
                        [ns EXCEPT ![parent].layout =
                            IF @ = "Vertical" THEN "Horizontal" ELSE "Vertical"],
                        ts)

\* resize_tab without the call of recalculate_tab
resize_tab_NoLayout(ns, ts, tab, area) ==
    IF ts[tab].area # area
    THEN Returning(Result(ns, [ts EXCEPT ![tab].area = area], FALSE, FALSE), TRUE)
    ELSE Returning(Result(ns, ts, FALSE, FALSE), FALSE)

\* Tabs::resize_tab(tab, area)
resize_tab(ns, ts, tab, area) ==
    IF ts[tab].area # area
    THEN Returning(recalculate_tab(ns, [ts EXCEPT ![tab].area = area], tab), TRUE)
    ELSE Returning(Result(ns, ts, FALSE, FALSE), FALSE)

----------------------------------------------------------------------------
(* Spatial navigation: find_split_in_direction, find_child and             *)
(* swap_split_in_direction. A search yields a key, None, or Unreachable    *)
(* when it runs into an unreachable!() or a missing key.                   *)

Unreachable == 0 - 2

\* MinByKey taking the first child whatever its distance
MinByKey_First(ns, children, axis, current) == 1

\* iter.min_by_key(key): the index of the first of the elements with the
\* least key
MinByKey(ns, children, axis, current) ==
    LET Key(id) == AbsDiffI16(current, IF axis = "x" THEN ns[id].area.x ELSE ns[id].area.y)
    IN  CHOOSE i \in 1..Len(children) :
          /\ \A j \in 1..Len(children) : Key(children[i]) <= Key(children[j])
          /\ \A j \in 1..(i - 1) : Key(children[j]) > Key(children[i])

RECURSIVE Descend(_, _, _, _)
\* the `while let Content::Container(container) = ...` loop of find_child
Descend(ns, child_id, current_x, current_y) ==
    IF child_id \notin DOMAIN ns THEN Unreachable
    ELSE IF ns[child_id].kind = "View" THEN child_id
    ELSE IF ns[child_id].children = <<>> THEN None
    ELSE IF \E c \in 1..Len(ns[child_id].children) :
               ns[child_id].children[c] \notin DOMAIN ns
    THEN Unreachable
    ELSE LET children == ns[child_id].children
             i == IF ns[child_id].layout = "Vertical"
                  THEN MinByKey(ns, children, "x", current_x)
                  ELSE MinByKey(ns, children, "y", current_y)
         IN  Descend(ns, children[i], current_x, current_y)

\* find_child scanning the children first to last whatever the direction
find_child_Forward(ns, ts, tab, id, children, direction) ==
    LET child_id == AfterFirst(children, id)
    IN  IF child_id = None THEN None
        ELSE IF ~IsView(ns, ts[tab].focus) THEN Unreachable
        ELSE Descend(ns, child_id, ns[ts[tab].focus].area.x, ns[ts[tab].focus].area.y)

\* Tabs::find_child(tab, id, children, direction)
find_child(ns, ts, tab, id, children, direction) ==
    LET child_id == IF direction \in {"Up", "Left"}
                    THEN AfterFirst(Reverse(children), id)
                    ELSE AfterFirst(children, id)
    IN  IF child_id = None THEN None
        ELSE IF ~IsView(ns, ts[tab].focus) THEN Unreachable
        ELSE Descend(ns, child_id, ns[ts[tab].focus].area.x, ns[ts[tab].focus].area.y)

RECURSIVE find_split_in_direction(_, _, _, _, _)
\* Tabs::find_split_in_direction(tab, id, direction)
find_split_in_direction(ns, ts, tab, id, direction) ==
    IF id \notin DOMAIN ns THEN Unreachable
    ELSE LET parent == ns[id].parent
         IN  IF parent = id THEN None
             ELSE IF ~IsContainer(ns, parent) THEN Unreachable
             ELSE IF \/ direction \in {"Up", "Down"} /\ ns[parent].layout = "Vertical"
                     \/ direction \in {"Left", "Right"} /\ ns[parent].layout = "Horizontal"
             THEN find_split_in_direction(ns, ts, tab, parent, direction)
             ELSE LET found == find_child(ns, ts, tab, id, ns[parent].children, direction)
                  IN  IF found # None THEN found
                      ELSE find_split_in_direction(ns, ts, tab, parent, direction)

RECURSIVE Ascent(_, _, _)
\* the ids that the upward recursion of find_split_in_direction stands on,
\* from `id` on, when no find_child on the way finds a pane: it follows the
\* parent fields until `parent == id`; `fuel` bounds the calls
Ascent(ns, id, fuel) ==
    IF id \notin DOMAIN ns THEN <<id>>
    ELSE IF ns[id].parent = id \/ fuel = 0 THEN <<id>>
    ELSE <<id>> \o Ascent(ns, ns[id].parent, fuel - 1)

RECURSIVE DescentEnd(_, _, _, _, _)
\* the node the `while let Content::Container(container) = ...` loop of
\* find_child stands on when it ends, or when `fuel` iterations have run
DescentEnd(ns, child_id, current_x, current_y, fuel) ==
    IF child_id \notin DOMAIN ns THEN Unreachable
    ELSE IF ns[child_id].kind = "View" \/ fuel = 0 THEN child_id
    ELSE IF ns[child_id].children = <<>> THEN None
    ELSE IF \E c \in 1..Len(ns[child_id].children) :
               ns[child_id].children[c] \notin DOMAIN ns
    THEN Unreachable
    ELSE LET children == ns[child_id].children
             i == IF ns[child_id].layout = "Vertical"
                  THEN MinByKey(ns, children, "x", current_x)
                  ELSE MinByKey(ns, children, "y", current_y)
         IN  DescentEnd(ns, children[i], current_x, current_y, fuel - 1)

\* SwapSameParent without the exchange of the two rectangles
SwapSameParent_KeepAreas(ns, parent, at, target) ==
    LET focus_pos  == Position(ns[parent].children, ns[at].view)
        target_pos == Position(ns[parent].children, ns[target].view)
        children1  == [ns[parent].children EXCEPT ![focus_pos + 1] = ns[target].view]
    IN  [ns EXCEPT ![parent].children = [children1 EXCEPT ![target_pos + 1] = ns[at].view]]

\* SwapSameParent with the target's rectangle copied to the focus instead of
\* the two being exchanged
SwapSameParent_CopyArea(ns, parent, at, target) ==
    LET focus_pos  == Position(ns[parent].children, ns[at].view)
        target_pos == Position(ns[parent].children, ns[target].view)
        children1  == [ns[parent].children EXCEPT ![focus_pos + 1] = ns[target].view]
    IN  [ns EXCEPT ![parent].children = [children1 EXCEPT ![target_pos + 1] = ns[at].view],
                   ![at].area = ns[target].area]

\* the same-parent arm of swap_split_in_direction; the places are looked up
\* and written by View.id
SwapSameParent(ns, parent, at, target) ==
    LET focus_pos  == Position(ns[parent].children, ns[at].view)
        target_pos == Position(ns[parent].children, ns[target].view)
        children1  == [ns[parent].children EXCEPT ![focus_pos + 1] = ns[target].view]
    IN  [ns EXCEPT ![parent].children = [children1 EXCEPT ![target_pos + 1] = ns[at].view],
                   ![at].area = ns[target].area,
                   ![target].area = ns[at].area]

\* SwapAcrossParents without the exchange of the two parent fields
SwapAcrossParents_KeepParents(ns, focus_parent, target_parent, at, target) ==
    LET focus_pos  == Position(ns[focus_parent].children, ns[at].view)
        target_pos == Position(ns[target_parent].children, ns[target].view)
    IN  [ns EXCEPT ![focus_parent].children =
                      [@ EXCEPT ![focus_pos + 1] = ns[target_parent].children[target_pos + 1]],
                   ![target_parent].children =
                      [@ EXCEPT ![target_pos + 1] = ns[focus_parent].children[focus_pos + 1]],
                   ![at].area = ns[target].area,
                   ![target].area = ns[at].area]

\* the different-parents arm of swap_split_in_direction
SwapAcrossParents(ns, focus_parent, target_parent, at, target) ==
    LET focus_pos  == Position(ns[focus_parent].children, ns[at].view)
        target_pos == Position(ns[target_parent].children, ns[target].view)
    IN  [ns EXCEPT ![focus_parent].children =
                      [@ EXCEPT ![focus_pos + 1] = ns[target_parent].children[target_pos + 1]],
                   ![target_parent].children =
                      [@ EXCEPT ![target_pos + 1] = ns[focus_parent].children[focus_pos + 1]],
                   ![at].parent = ns[target].parent,
                   ![target].parent = ns[at].parent,
                   ![at].area = ns[target].area,
                   ![target].area = ns[at].area]

\* HopSlotMap::get_disjoint_mut(keys): all present and pairwise distinct
get_disjoint_mut(ns, keys) ==
    /\ \A i \in 1..Len(keys) : keys[i] \in DOMAIN ns
    /\ \A i, j \in 1..Len(keys) : i # j => keys[i] # keys[j]

\* SwapFailed with the trees' traversal stacks left seeded by the search
SwapFailed_DirtyStack(ns, ts) ==
    Returning(Result(ns, [t \in DOMAIN ts |-> [ts[t] EXCEPT !.stack = <<ts[t].root>>]],
                     FALSE, FALSE), "None")

\* a `?` of swap_split_in_direction returns None early: nothing was written
SwapFailed(ns, ts) == Returning(Result(ns, ts, FALSE, FALSE), "None")

\* Tabs::swap_split_in_direction(tab, direction); returns Some(()) or None
swap_split_in_direction(ns, ts, tab, direction) ==
    LET at     == ts[tab].focus
        target == find_split_in_direction(ns, ts, tab, at, direction)
        Failed == SwapFailed(ns, ts)
    IN  IF target = Unreachable THEN Panic(ns, ts)
        ELSE IF target = None THEN Failed
        ELSE LET focus_parent  == ns[at].parent
                 target_parent == ns[target].parent
             IN  IF focus_parent = target_parent
                 THEN IF ~get_disjoint_mut(ns, <<focus_parent, at, target>>) THEN Failed
                      ELSE IF ~(IsContainer(ns, focus_parent) /\ IsView(ns, at)
                                /\ IsView(ns, target))
                      THEN Panic(ns, ts)
                      ELSE IF \/ Position(ns[focus_parent].children, ns[at].view) < 0
                              \/ Position(ns[focus_parent].children, ns[target].view) < 0
                      THEN Failed
                      ELSE Returning(
                             Result(SwapSameParent(ns, focus_parent, at, target), ts,
                                    FALSE, FALSE), "Some")
                 ELSE IF ~get_disjoint_mut(ns, <<focus_parent, target_parent, at, target>>)
                      THEN Failed
                      ELSE IF ~(IsContainer(ns, focus_parent) /\ IsContainer(ns, target_parent)
                                /\ IsView(ns, at) /\ IsView(ns, target))
                      THEN Panic(ns, ts)
                      ELSE IF \/ Position(ns[focus_parent].children, ns[at].view) < 0
                              \/ Position(ns[target_parent].children, ns[target].view) < 0
                      THEN Failed
                      ELSE Returning(
                             Result(SwapAcrossParents(ns, focus_parent, target_parent,
                                                      at, target), ts, FALSE, FALSE),
                             "Some")

----------------------------------------------------------------------------
(* Whole-set operations *)

RECURSIVE for_each_key_resize_ShortCircuit(_, _, _, _)
\* for_each_key_resize that stops at the first tab that changed (the
\* `.map(..).any(|x| x)` the source has commented out)
for_each_key_resize_ShortCircuit(ns, ts, keys, area) ==
    IF keys = {} THEN Returning(Result(ns, ts, FALSE, FALSE), FALSE)
    ELSE LET tab == CHOOSE k \in keys : \A j \in keys : k <= j
             r   == resize_tab(ns, ts, tab, area)
         IN  IF r.panic \/ r.ret THEN r
             ELSE for_each_key_resize_ShortCircuit(r.nodes, r.trees, keys \ {tab}, area)

RECURSIVE for_each_key_resize(_, _, _, _)
\* for_each_key_mut(|this, key| result |= this.resize_tab(key, area)) over
\* the tabs still to visit, in key order
for_each_key_resize(ns, ts, keys, area) ==
    IF keys = {} THEN Returning(Result(ns, ts, FALSE, FALSE), FALSE)
    ELSE LET tab == CHOOSE k \in keys : \A j \in keys : k <= j
             r   == resize_tab(ns, ts, tab, area)
         IN  IF r.panic THEN r
             ELSE LET q == for_each_key_resize(r.nodes, r.trees, keys \ {tab}, area)
                  IN  Returning(Result(q.nodes, q.trees, q.panic, r.ovf \/ q.ovf),
                                r.ret \/ q.ret)

\* Tabs::resize(area)
resize(ns, ts, area) == for_each_key_resize(ns, ts, DOMAIN ts, area)

\* Tabs::focus_next(): the key after the active one in key order, wrapping
focus_next(ts, curr) ==
    LET after == {t \in DOMAIN ts : t > curr}
        Min(S) == CHOOSE k \in S : \A j \in S : k <= j
    IN  IF after # {} THEN Min(after) ELSE Min(DOMAIN ts)

----------------------------------------------------------------------------
(* The state machine *)

\* Tabs::new(area)
Init ==
    /\ \E area \in Areas :
         LET r == new_tree(<<>>, <<>>, area, 1, 1)
         IN  /\ nodes = r.nodes
             /\ trees = r.trees
    /\ focus = 1
    /\ nextKey = 2
    /\ nextTab = 2
    /\ aborted = FALSE

\* a panic ends the process: nothing of the Tabs value remains
Crash ==
    /\ aborted' = TRUE
    /\ nodes' = <<>>
    /\ trees' = <<>>
    /\ focus' = None
    /\ nextKey' = None
    /\ nextTab' = None

\* the call's effects are in place, the arena having handed out `keys` keys
Apply(r, keys) ==
    /\ nodes' = r.nodes
    /\ trees' = r.trees
    /\ nextKey' = nextKey + keys
    /\ UNCHANGED <<focus, nextTab, aborted>>

\* the end of a call that yields `r`: a panic crashes; a u16 operation out
\* of range crashes in a build with overflow checks and wraps in one without
Commit(r, keys) ==
    \/ (r.panic \/ r.ovf) /\ Crash
    \/ ~r.panic /\ Apply(r, keys)

\* the bound on the keys handed out, by the number of tabs open
KeyLimit == IF Cardinality(DOMAIN trees) > 1 THEN MaxSharedKeys ELSE MaxKeys

\* the panes registered in tab's member-set
Panes(tab) == {k \in trees[tab].nodes : IsView(nodes, k)}

Insert(tab) ==
    /\ ~aborted
    /\ nextKey <= KeyLimit
    /\ Commit(insert(nodes, trees, tab, nextKey), 1)

Split(tab, layout) ==
    LET keys == IF SplitMakesContainer(nodes, trees, tab, layout) THEN 2 ELSE 1
    IN  /\ ~aborted
        /\ nextKey + keys - 1 <= KeyLimit
        /\ Commit(split(nodes, trees, tab, layout, nextKey, nextKey + 1), keys)

\* Tabs::remove(tab, index), called with a pane of the tab
Remove(tab, index) ==
    /\ ~aborted
    /\ index \in Panes(tab)
    /\ Commit(remove(nodes, trees, focus, tab, index), 0)

Transpose(tab) ==
    /\ ~aborted
    /\ Commit(transpose(nodes, trees, tab), 0)

Swap(tab, direction) ==
    /\ ~aborted
    /\ Commit(swap_split_in_direction(nodes, trees, tab, direction), 0)

ResizeTab(tab, area) ==
    /\ ~aborted
    /\ Commit(resize_tab(nodes, trees, tab, area), 0)

Resize(area) ==
    /\ ~aborted
    /\ Commit(resize(nodes, trees, area), 0)

\* Tabs::set_focused_view(tab, index), called with a pane of the tab
SetFocusedView(tab, index) ==
    /\ ~aborted
    /\ index \in Panes(tab)
    /\ trees' = [trees EXCEPT ![tab].focus = index]
    /\ UNCHANGED <<nodes, focus, nextKey, nextTab, aborted>>

\* Tabs::new_tab()
NewTab ==
    /\ ~aborted
    /\ nextTab <= MaxTabs
    /\ nextKey <= MaxSharedKeys
    /\ LET r == new_tree(nodes, trees, trees[focus].area, nextKey, nextTab)
       IN  /\ nodes' = r.nodes
           /\ trees' = r.trees
    /\ focus' = nextTab
    /\ nextKey' = nextKey + 1
    /\ nextTab' = nextTab + 1
    /\ UNCHANGED aborted

\* Tabs::focus_next()
FocusNext ==
    /\ ~aborted
    /\ focus' = focus_next(trees, focus)
    /\ UNCHANGED <<nodes, trees, nextKey, nextTab, aborted>>

Next ==
    \/ \E tab \in DOMAIN trees : Insert(tab)
    \/ \E tab \in DOMAIN trees, layout \in Layouts : Split(tab, layout)
    \/ \E tab \in DOMAIN trees, index \in DOMAIN nodes : Remove(tab, index)
    \/ \E tab \in DOMAIN trees : Transpose(tab)
    \/ \E tab \in DOMAIN trees, direction \in Directions : Swap(tab, direction)
    \/ \E tab \in DOMAIN trees, area \in Areas : ResizeTab(tab, area)
    \/ \E area \in Areas : Resize(area)
    \/ \E tab \in DOMAIN trees, index \in DOMAIN nodes : SetFocusedView(tab, index)
    \/ NewTab
    \/ FocusNext

Spec == Init /\ [][Next]_vars

----------------------------------------------------------------------------
(* The single workspace of a 180x80 terminal, built up by insert, split    *)
(* and set_focused_view alone (the calls of test::find_split_in_direction) *)

\* the terminal rectangle of the test
ScenarioArea == Rect(0, 0, 180, 80)

\* Tabs::new(Rect { x: 0, y: 0, width: 180, height: 80 })
ScenarioInit ==
    /\ LET r == new_tree(<<>>, <<>>, ScenarioArea, 1, 1)
       IN  /\ nodes = r.nodes
           /\ trees = r.trees
    /\ focus = 1
    /\ nextKey = 2
    /\ nextTab = 2
    /\ aborted = FALSE

ScenarioInsert(tab) ==
    /\ ~aborted
    /\ nextKey <= MaxScenarioKeys
    /\ Commit(insert(nodes, trees, tab, nextKey), 1)

ScenarioSplit(tab, layout) ==
    LET keys == IF SplitMakesContainer(nodes, trees, tab, layout) THEN 2 ELSE 1
    IN  /\ ~aborted
        /\ nextKey + keys - 1 <= MaxScenarioKeys
        /\ Commit(split(nodes, trees, tab, layout, nextKey, nextKey + 1), keys)

ScenarioNext ==
    \/ \E tab \in DOMAIN trees : ScenarioInsert(tab)
    \/ \E tab \in DOMAIN trees, layout \in Layouts : ScenarioSplit(tab, layout)
    \/ \E tab \in DOMAIN trees, index \in DOMAIN nodes : SetFocusedView(tab, index)

ScenarioSpec == ScenarioInit /\ [][ScenarioNext]_vars

----------------------------------------------------------------------------
(* The operations that set or move a workspace's focus, over up to         *)
(* MaxTabs workspaces: new_tab, insert, remove and set_focused_view        *)

FocusInsert(tab) ==
    /\ ~aborted
    /\ nextKey <= MaxFocusKeys
    /\ Commit(insert(nodes, trees, tab, nextKey), 1)

FocusNewTab ==
    /\ ~aborted
    /\ nextTab <= MaxTabs
    /\ nextKey <= MaxFocusKeys
    /\ LET r == new_tree(nodes, trees, trees[focus].area, nextKey, nextTab)
       IN  /\ nodes' = r.nodes
           /\ trees' = r.trees
    /\ focus' = nextTab
    /\ nextKey' = nextKey + 1
    /\ nextTab' = nextTab + 1
    /\ UNCHANGED aborted

FocusOpsNext ==
    \/ \E tab \in DOMAIN trees : FocusInsert(tab)
    \/ \E tab \in DOMAIN trees, index \in DOMAIN nodes : Remove(tab, index)
    \/ \E tab \in DOMAIN trees, index \in DOMAIN nodes : SetFocusedView(tab, index)
    \/ FocusNewTab

FocusSpec == Init /\ [][FocusOpsNext]_vars

----------------------------------------------------------------------------
(* The operations of Spec, and remove called with a key that is no member  *)
(* of the workspace named: remove takes any ViewId and tests no membership *)

\* the keys handed out so far that are no members of `tab`: panes of other
\* workspaces, and keys already removed from the arena
NonMembers(tab) ==
    {k \in 1..(nextKey - 1) :
        /\ k \notin trees[tab].nodes
        /\ k \notin DOMAIN nodes \/ IsView(nodes, k)}

\* Tabs::remove(tab, index), called with a key that is no member of the tab
RemoveNonMember(tab, index) ==
    /\ ~aborted
    /\ index \in NonMembers(tab)
    /\ Commit(remove(nodes, trees, focus, tab, index), 0)

MisuseNext ==
    \/ Next
    \/ \E tab \in DOMAIN trees, index \in 1..MaxKeys : RemoveNonMember(tab, index)

MisuseSpec == Init /\ [][MisuseNext]_vars

----------------------------------------------------------------------------
(* Vocabulary of the properties, stated over the state alone *)

Range(s) == {s[i] : i \in 1..Len(s)}

Roots == {trees[t].root : t \in DOMAIN trees}

RECURSIVE Descendants(_, _)
\* k and every node below it, following children lists
Descendants(ns, k) ==
    IF k \notin DOMAIN ns THEN {k}
    ELSE {k} \cup UNION {Descendants(ns, c) : c \in Range(ns[k].children)}

RECURSIVE PreOrder(_, _)
\* the panes at and below k, depth first, children in list order
PreOrder(ns, k) ==
    IF k \notin DOMAIN ns THEN <<>>
    ELSE IF ns[k].kind = "View" THEN <<k>>
    ELSE LET RECURSIVE Cat(_)
             Cat(i) == IF i > Len(ns[k].children) THEN <<>>
                       ELSE PreOrder(ns, ns[k].children[i]) \o Cat(i + 1)
         IN  Cat(1)

\* the number of places k holds in children lists of the arena
Occurrences(ns, k) ==
    Cardinality({<<c, i>> \in (DOMAIN ns) \X (1..Cardinality(DOMAIN ns)) :
                    i <= Len(ns[c].children) /\ ns[c].children[i] = k})

----------------------------------------------------------------------------
(* C1: the member-set of every workspace is exactly the set of nodes       *)
(* reachable from its root through children lists.                         *)
C1_MemberSetIsReachable ==
    \A tab \in DOMAIN trees :
        trees[tab].nodes = Descendants(nodes, trees[tab].root)

(* C2: the focus of every workspace is a member of it and a pane, unless   *)
(* the workspace has no panes, and then the focus is the root.             *)
C2_FocusIsMemberPane ==
    \A tab \in DOMAIN trees :
        IF PreOrder(nodes, trees[tab].root) = <<>>
        THEN trees[tab].focus = trees[tab].root
        ELSE /\ trees[tab].focus \in trees[tab].nodes
             /\ IsView(nodes, trees[tab].focus)

(* C3: every node but a workspace root holds exactly one place in the      *)
(* children lists, in the list of the container its parent field names;    *)
(* every workspace root is a container and its own parent.                 *)
C3_OneParent ==
    /\ \A k \in DOMAIN nodes \ Roots :
          /\ Occurrences(nodes, k) = 1
          /\ IsContainer(nodes, nodes[k].parent)
          /\ k \in Range(nodes[nodes[k].parent].children)
    /\ \A r \in Roots : IsContainer(nodes, r) /\ nodes[r].parent = r

\* a split has put two panes under a new container that took the place of
\* the first in the root, beside a second workspace or a further pane
C3_Witness ==
    \E tab \in DOMAIN trees, c \in DOMAIN nodes \ Roots :
        /\ IsContainer(nodes, c)
        /\ nodes[c].parent = trees[tab].root
        /\ Len(nodes[c].children) = 2
        /\ \A i \in 1..2 : IsView(nodes, nodes[c].children[i])
        /\ Len(nodes[trees[tab].root].children) = 2

(* C4: no container but a workspace root has an empty children list, and   *)
(* a root is empty only when its workspace has no panes.                   *)
C4_NoEmptyContainer ==
    /\ \A k \in DOMAIN nodes \ Roots :
          nodes[k].kind = "Container" => nodes[k].children # <<>>
    /\ \A tab \in DOMAIN trees :
          nodes[trees[tab].root].children = <<>> => Panes(tab) = {}

\* every pane and container of the only workspace has been removed again:
\* the root is empty although three keys were handed out below it
C4_Witness ==
    /\ DOMAIN trees = {1}
    /\ nextKey = 5
    /\ DOMAIN nodes = {trees[1].root}
    /\ nodes[trees[1].root].children = <<>>

----------------------------------------------------------------------------
(* Vocabulary of the properties of single calls. A call that panics has no *)
(* state after it; the properties of a call's effects speak of the calls   *)
(* that return.                                                            *)

\* the 1-based place of x in s
PlaceOf(s, x) == CHOOSE i \in 1..Len(s) : s[i] = x

\* s without the elements of D
Without(s, D) == LET Keep(x) == x \notin D IN SelectSeq(s, Keep)

RECURSIVE Doomed(_, _, _)
\* k and the chain of containers above it that hold nothing but that chain,
\* up to and without the root
Doomed(ns, root, k) ==
    LET p == ns[k].parent
    IN  {k} \cup (IF p # root /\ p # k /\ ns[p].children = <<k>>
                  THEN Doomed(ns, root, p) ELSE {})

(* C5: remove of the focused pane of a workspace with two panes or more,   *)
(* active or not, moves the focus to the pane before it in traversal       *)
(* order, to the last pane when it was the first; remove of another pane   *)
(* leaves the focus as it was.                                             *)
C5_RemoveMovesFocus ==
    [][\A tab \in DOMAIN trees, index \in DOMAIN nodes :
          (Remove(tab, index) /\ ~aborted') =>
             LET order == PreOrder(nodes, trees[tab].root)
                 i     == PlaceOf(order, index)
             IN  IF trees[tab].focus = index
                 THEN Len(order) >= 2 =>
                        trees'[tab].focus =
                            IF i = 1 THEN order[Len(order)] ELSE order[i - 1]
                 ELSE trees'[tab].focus = trees[tab].focus]_vars

(* C6: remove deletes the pane from its parent's children list, from the   *)
(* arena and from the member-set, together with every container above it   *)
(* that is thereby emptied and is not the root; the root and every         *)
(* container that keeps a child stay, with their other children in order.  *)
C6_RemoveCascades ==
    [][\A tab \in DOMAIN trees, index \in DOMAIN nodes :
          (Remove(tab, index) /\ ~aborted') =>
             LET D == Doomed(nodes, trees[tab].root, index)
             IN  /\ DOMAIN nodes' = DOMAIN nodes \ D
                 /\ trees[tab].root \in DOMAIN nodes'
                 /\ trees'[tab].nodes = trees[tab].nodes \ D
                 /\ \A k \in DOMAIN nodes' :
                       /\ nodes'[k].children = Without(nodes[k].children, D)
                       /\ nodes'[k].parent = nodes[k].parent
                       /\ nodes'[k].kind = nodes[k].kind]_vars

\* a remove took the second pane of a split container (the pane made with
\* it, whose key is the one before the container's); the container stays
\* with the first
C6_Witness ==
    \E c \in DOMAIN nodes \ Roots :
        /\ IsContainer(nodes, c)
        /\ Len(nodes[c].children) = 1
        /\ IsView(nodes, nodes[c].children[1])
        /\ c - 1 \notin DOMAIN nodes

(* C7: insert, and split along the axis the focused node's parent already  *)
(* has, put the new pane into that parent right after the focused node (at *)
(* index 0 when the parent is empty), keep the order of the other          *)
(* children, set the new pane's parent to that container, focus the new    *)
(* pane and register it in the member-set.                                 *)
C7_SiblingInsertion ==
    [][\A tab \in DOMAIN trees :
          ( /\ ~aborted'
            /\ \/ Insert(tab)
               \/ \E layout \in Layouts :
                     /\ Split(tab, layout)
                     /\ ~SplitMakesContainer(nodes, trees, tab, layout) ) =>
             LET at       == trees[tab].focus
                 parent   == nodes[at].parent
                 children == nodes[parent].children
                 place    == IF children = <<>> THEN 0 ELSE PlaceOf(children, at)
                 new      == nextKey
             IN  /\ nodes'[parent].children =
                       SubSeq(children, 1, place) \o <<new>>
                          \o SubSeq(children, place + 1, Len(children))
                 /\ IsView(nodes', new)
                 /\ nodes'[new].parent = parent
                 /\ trees'[tab].focus = new
                 /\ trees'[tab].nodes = trees[tab].nodes \cup {new}]_vars

\* the newest pane stands focused between two older siblings
C7_Witness ==
    \E tab \in DOMAIN trees :
        LET children == nodes[trees[tab].root].children
        IN  /\ Len(children) = 3
            /\ children[2] = nextKey - 1
            /\ trees[tab].focus = children[2]
            /\ IsView(nodes, children[2])
            /\ nodes[children[2]].parent = trees[tab].root

(* C8: split along the other axis than that of the focused node's parent P *)
(* creates one container S of the requested axis in the focused node's     *)
(* place in P, P's other children kept, with S.parent = P, S.children =    *)
(* [focused node, new pane], both with parent S, and focuses the new pane. *)
C8_SplitNewContainer ==
    [][\A tab \in DOMAIN trees, layout \in Layouts :
          ( /\ ~aborted'
            /\ Split(tab, layout)
            /\ SplitMakesContainer(nodes, trees, tab, layout) ) =>
             LET at     == trees[tab].focus
                 P      == nodes[at].parent
                 new    == nextKey
                 S      == nextKey + 1
             IN  /\ DOMAIN nodes' = DOMAIN nodes \cup {new, S}
                 /\ nodes'[S].kind = "Container"
                 /\ nodes'[S].layout = layout
                 /\ nodes'[S].parent = P
                 /\ nodes'[S].children = <<at, new>>
                 /\ nodes'[P].children =
                       [nodes[P].children EXCEPT ![PlaceOf(nodes[P].children, at)] = S]
                 /\ nodes'[at].parent = S
                 /\ nodes'[new].parent = S
                 /\ IsView(nodes', new)
                 /\ trees'[tab].focus = new]_vars

\* the newest container holds an older pane and the newest pane, focused,
\* and stands first in the root before another child
C8_Witness ==
    \E tab \in DOMAIN trees :
        LET children == nodes[trees[tab].root].children
            S        == nextKey - 1
        IN  /\ Len(children) = 2
            /\ children[1] = S
            /\ IsContainer(nodes, S)
            /\ IsView(nodes, children[2])
            /\ Len(nodes[S].children) = 2
            /\ nodes[S].children[2] = S - 1
            /\ trees[tab].focus = S - 1
            /\ nodes[S].layout # nodes[trees[tab].root].layout

\* the containers of the workspaces that a layout pass has laid out
LaidOut(layout) ==
    {k \in UNION {Descendants(nodes, trees[t].root) : t \in DOMAIN trees} :
        /\ IsContainer(nodes, k)
        /\ nodes[k].layout = layout
        /\ nodes[k].children # <<>>}

(* C9: in every Vertical container with n >= 1 children and width W, each  *)
(* child has the container's y and height, child i has x = container.x +   *)
(* i * (floor(W/n) + 1), the first n-1 children have width floor(W/n),     *)
(* and the last child's x + width is the container's x + width.            *)
C9_VerticalTiling ==
    \A k \in LaidOut("Vertical") :
        LET c == nodes[k].area
            n == Len(nodes[k].children)
            A(i) == nodes[nodes[k].children[i]].area
        IN  \A i \in 1..n :
               /\ A(i).y = c.y
               /\ A(i).height = c.height
               /\ A(i).x = c.x + (i - 1) * ((c.width \div n) + 1)
               /\ i < n => A(i).width = c.width \div n
               /\ i = n => A(i).x + A(i).width = c.x + c.width

(* C10: in every Horizontal container with n >= 1 children and height H,   *)
(* each child has the container's x and width, the first child starts at   *)
(* the container's y, each next child starts where the one before ends,    *)
(* the first n-1 children have height floor(H/n), and the last child ends  *)
(* at the container's bottom edge, so the heights sum to H.                *)
C10_HorizontalTiling ==
    \A k \in LaidOut("Horizontal") :
        LET c == nodes[k].area
            n == Len(nodes[k].children)
            A(i) == nodes[nodes[k].children[i]].area
            RECURSIVE Sum(_)
            Sum(i) == IF i = 0 THEN 0 ELSE A(i).height + Sum(i - 1)
        IN  /\ \A i \in 1..n :
                  /\ A(i).x = c.x
                  /\ A(i).width = c.width
                  /\ i = 1 => A(i).y = c.y
                  /\ i > 1 => A(i).y = A(i - 1).y + A(i - 1).height
                  /\ i < n => A(i).height = c.height \div n
                  /\ i = n => A(i).y + A(i).height = c.y + c.height
            /\ Sum(n) = c.height

\* a Horizontal container whose height does not divide evenly among its two
\* or more children
C10_Witness ==
    \E k \in LaidOut("Horizontal") :
        /\ Len(nodes[k].children) >= 2
        /\ nodes[k].area.height % Len(nodes[k].children) # 0

----------------------------------------------------------------------------
(* Vocabulary of the properties of swap_split_in_direction *)

\* the pane the search from the focus of `tab` finds in `direction`
SwapTarget(ns, ts, tab, direction) ==
    find_split_in_direction(ns, ts, tab, ts[tab].focus, direction)

\* the call swap_split_in_direction(tab, direction) returns Some(())
SwapSucceeds(ns, ts, tab, direction) ==
    LET r == swap_split_in_direction(ns, ts, tab, direction)
    IN  ~r.panic /\ r.ret = "Some"

\* the (container, 1-based index) slot k holds
SlotOf(ns, k) == <<ns[k].parent, PlaceOf(ns[ns[k].parent].children, k)>>

C12_FailedSwapChangesNothing ==
    \A tab \in DOMAIN trees, direction \in Directions :
        LET F == trees[tab].focus
            T == SwapTarget(nodes, trees, tab, direction)
            r == swap_split_in_direction(nodes, trees, tab, direction)
        IN  ( \/ T = None
              \/ /\ T # Unreachable
                 /\ ~get_disjoint_mut(nodes,
                       IF nodes[F].parent = nodes[T].parent
                       THEN <<nodes[F].parent, F, T>>
                       ELSE <<nodes[F].parent, nodes[T].parent, F, T>>) ) =>
               /\ ~r.panic
               /\ r.ret = "None"
               /\ r.nodes = nodes
               /\ r.trees = trees

\* the focused pane has a sibling and, in some direction, no neighbour: a
\* swap in that direction is one that fails
C12_Witness ==
    \E tab \in DOMAIN trees, direction \in Directions :
        /\ IsView(nodes, trees[tab].focus)
        /\ Cardinality(Panes(tab)) >= 3
        /\ SwapTarget(nodes, trees, tab, direction) = None
        /\ swap_split_in_direction(nodes, trees, tab, direction).ret = "None"

(* C13: right after a successful swap_split_in_direction every rectangle   *)
(* is what a full layout pass on the tree after the swap assigns:          *)
(* recalculate then changes no rectangle.                                  *)
C13_SwapNeedsNoLayout ==
    [][\A tab \in DOMAIN trees, direction \in Directions :
          ( /\ ~aborted'
            /\ Swap(tab, direction)
            /\ SwapSucceeds(nodes, trees, tab, direction) ) =>
             LET r == recalculate(nodes', trees')
             IN  /\ ~r.panic
                 /\ DOMAIN r.nodes = DOMAIN nodes'
                 /\ \A k \in DOMAIN nodes' : r.nodes[k].area = nodes'[k].area]_vars

\* a pane moved by a swap across parents (see C11_Witness) stands beside a
\* container whose panes have rectangles of another size than its own
C13_Witness ==
    \E S \in DOMAIN nodes \ Roots :
        /\ IsContainer(nodes, S)
        /\ IsView(nodes, S - 1)
        /\ nodes[S - 1].parent < S
        /\ nodes[S].parent = nodes[S - 1].parent
        /\ \E c \in Range(nodes[S].children) :
              /\ IsView(nodes, c)
              /\ <<nodes[c].area.width, nodes[c].area.height>>
                    # <<nodes[S - 1].area.width, nodes[S - 1].area.height>>

(* C14: if a swap from focus F exchanges F with T and a swap from F right  *)
(* after it selects the same T, then after the second swap all children    *)
(* lists, parent fields and rectangles are as before the first.            *)
C14_SwapTwiceRestores ==
    [][\A tab \in DOMAIN trees, d1 \in Directions :
          ( /\ ~aborted'
            /\ Swap(tab, d1)
            /\ SwapSucceeds(nodes, trees, tab, d1) ) =>
             \A d2 \in Directions :
                SwapTarget(nodes', trees', tab, d2) = SwapTarget(nodes, trees, tab, d1) =>
                   LET r == swap_split_in_direction(nodes', trees', tab, d2)
                   IN  /\ ~r.panic
                       /\ r.ret = "Some"
                       /\ r.nodes = nodes
                       /\ r.trees = trees]_vars

\* a state from which a swap succeeds and the swap that follows it finds the
\* same target again
C14_Witness ==
    \E tab \in DOMAIN trees, d1 \in Directions, d2 \in Directions :
        /\ ~aborted
        /\ SwapSucceeds(nodes, trees, tab, d1)
        /\ LET r == swap_split_in_direction(nodes, trees, tab, d1)
           IN  /\ SwapTarget(r.nodes, r.trees, tab, d2) = SwapTarget(nodes, trees, tab, d1)
               /\ nodes[trees[tab].focus].parent
                     # nodes[SwapTarget(nodes, trees, tab, d1)].parent

----------------------------------------------------------------------------
\* the tree of test::find_split_in_direction: insert A (key 2), split
\* Vertical adding B (3), focus A, split Horizontal adding C (4, under the
\* new container 5), focus A, split Vertical adding D (6, under the new
\* container 7): root(Vertical)[5(Horizontal)[7(Vertical)[A, D], C], B]
ScenarioTree ==
    /\ ~aborted
    /\ DOMAIN nodes = 1..7
    /\ trees[1].root = 1
    /\ trees[1].area = ScenarioArea
    /\ nodes[1].layout = "Vertical" /\ nodes[1].children = <<5, 3>>
    /\ nodes[5].kind = "Container"
    /\ nodes[5].layout = "Horizontal" /\ nodes[5].children = <<7, 4>>
    /\ nodes[7].kind = "Container"
    /\ nodes[7].layout = "Vertical" /\ nodes[7].children = <<2, 6>>
    /\ \A p \in {2, 3, 4, 6} : nodes[p].kind = "View"

\* what find_split_in_direction is to give in ScenarioTree from each pane,
\* by direction (A = 2, B = 3, C = 4, D = 6)
ScenarioNeighbour ==
    [p \in {2, 3, 4, 6} |->
        CASE p = 6 -> [Left |-> 2, Down |-> 4, Right |-> 3, Up |-> None]
          [] p = 4 -> [Left |-> None, Down |-> None, Right |-> 3, Up |-> 2]
          [] p = 2 -> [Left |-> None, Down |-> 4, Right |-> 6, Up |-> None]
          [] p = 3 -> [Left |-> 6, Down |-> None, Right |-> None, Up |-> None]]

(* C15: in the tree root(Vertical)[H(Horizontal)[V(Vertical)[A, D], C], B] *)
(* on the 180x80 terminal, with the focus on the start pane,               *)
(* find_split_in_direction gives from D: Left A, Down C, Right B, Up None; *)
(* from C: Left None, Down None, Right B, Up A; from A: Left None, Down C, *)
(* Right D, Up None; from B: Left D, Down None, Right None, Up None.       *)
C15_ScenarioNeighbours ==
    ScenarioTree =>
        \A direction \in Directions :
            find_split_in_direction(nodes, trees, 1, trees[1].focus, direction)
                = ScenarioNeighbour[trees[1].focus][direction]

\* the scenario's tree with the focus moved to B, the last pane the test
\* asks from
C15_Witness == ScenarioTree /\ trees[1].focus = 3

----------------------------------------------------------------------------
(* C16: on a workspace with at least one pane, prev returns the pane right *)
(* before the focus and next the pane right after it in depth-first        *)
(* pre-order, prev wrapping from the first pane to the last and next from  *)
(* the last to the first. (Both take &self: they are functions of the      *)
(* state and write nothing.)                                               *)
C16_PrevNextInOrder ==
    \A tab \in DOMAIN trees :
        LET order == PreOrder(nodes, trees[tab].root)
            n     == Len(order)
        IN  n >= 1 =>
               \E i \in 1..n :
                  /\ order[i] = trees[tab].focus
                  /\ prev(nodes, trees, tab) = IF i = 1 THEN order[n] ELSE order[i - 1]
                  /\ next(nodes, trees, tab) = IF i = n THEN order[1] ELSE order[i + 1]

(* C17: in a workspace with at least two panes and focus F, setting the    *)
(* focus to next() and then calling prev() gives F, and setting the focus  *)
(* to prev() and then calling next() gives F.                              *)
C17_NextPrevRoundTrip ==
    [][\A tab \in DOMAIN trees :
          Len(PreOrder(nodes, trees[tab].root)) >= 2 =>
             /\ SetFocusedView(tab, next(nodes, trees, tab)) =>
                   prev(nodes', trees', tab) = trees[tab].focus
             /\ SetFocusedView(tab, prev(nodes, trees, tab)) =>
                   next(nodes', trees', tab) = trees[tab].focus]_vars

----------------------------------------------------------------------------
(* C18: remove(W, p) with p no member of W (a pane of another workspace,   *)
(* or a key already removed) fails fast: the call panics, so that it       *)
(* modifies neither the arena, nor a children list, nor the member-set,    *)
(* root or focus of any workspace.                                         *)
C18_RemoveNonMemberFails ==
    [][\A tab \in DOMAIN trees, index \in 1..MaxKeys :
          RemoveNonMember(tab, index) => aborted']_vars

\* the state remove(tab, index) is in when its loop has ended and its
\* closing layout pass is about to start
RemoveBeforeLayout(tab, index) ==
    RemoveLoop(nodes, RemoveFocus(nodes, trees, focus, tab, index), tab, <<index>>)

(* C19: the emptiness query (tab_is_empty, and recalculate_tab which calls *)
(* it) on a workspace whose root is no longer in the arena reports the     *)
(* workspace as empty and does not fail. (The root of a workspace leaves   *)
(* the arena only inside a remove of another workspace's last pane, whose  *)
(* closing layout pass then queries every workspace.)                      *)
C19_MissingRootIsEmpty ==
    [][\A tab \in DOMAIN trees, index \in 1..MaxKeys :
          RemoveNonMember(tab, index) =>
             LET r == RemoveBeforeLayout(tab, index)
             IN  ~r.panic =>
                    \A t \in DOMAIN r.trees :
                       r.trees[t].root \notin DOMAIN r.nodes =>
                          ~tab_is_empty_panics(r.nodes, r.trees, t)]_vars

----------------------------------------------------------------------------
(* C20: resize_tab(tab, rect) returns false and changes nothing when rect  *)
(* is the workspace's stored rectangle; otherwise it stores rect, lays the *)
(* workspace out anew (its root takes rect and a further pass changes      *)
(* nothing), returns true, and leaves the stored rectangle of every other  *)
(* workspace and the rectangle of every node outside the workspace as they *)
(* were.                                                                   *)
C20_ResizeTab ==
    /\ [](\A tab \in DOMAIN trees :
            LET r == resize_tab(nodes, trees, tab, trees[tab].area)
            IN  /\ ~r.panic
                /\ r.ret = FALSE
                /\ r.nodes = nodes
                /\ r.trees = trees)
    /\ [][\A tab \in DOMAIN trees, area \in Areas :
          (ResizeTab(tab, area) /\ ~aborted') =>
             LET r    == resize_tab(nodes, trees, tab, area)
                 root == trees[tab].root
             IN  IF trees[tab].area = area
                 THEN /\ nodes' = nodes
                      /\ trees' = trees
                 ELSE /\ r.ret = TRUE
                      /\ trees'[tab].area = area
                      /\ nodes[root].children # <<>> =>
                            /\ nodes'[root].area = area
                            /\ recalculate_tab(nodes', trees', tab).nodes = nodes'
                      /\ \A t \in DOMAIN trees \ {tab} : trees'[t] = trees[t]
                      /\ DOMAIN nodes' = DOMAIN nodes
                      /\ \A k \in DOMAIN nodes :
                            /\ nodes'[k].children = nodes[k].children
                            /\ nodes'[k].parent = nodes[k].parent
                            /\ k \notin Descendants(nodes, root) =>
                                  nodes'[k] = nodes[k]]_vars

\* two workspaces, each with a pane, hold different stored rectangles and
\* each is laid out to its own: one of them was resized alone
C20_Witness ==
    \E t1 \in DOMAIN trees, t2 \in DOMAIN trees :
        /\ trees[t1].area # trees[t2].area
        /\ \A t \in {t1, t2} :
              /\ nodes[trees[t].root].children # <<>>
              /\ nodes[trees[t].root].area = trees[t].area

----------------------------------------------------------------------------
\* every rectangle of the arena `ns` is what a layout pass over all the
\* workspaces `ts` assigns
LayoutIsFresh(ns, ts) ==
    LET r == recalculate(ns, ts)
    IN  /\ ~r.panic
        /\ DOMAIN r.nodes = DOMAIN ns
        /\ \A k \in DOMAIN ns : r.nodes[k].area = ns[k].area

(* C21: resize(rect) leaves every workspace with the stored rectangle rect *)
(* and laid out for it, neither adds nor removes a workspace, and returns  *)
(* true exactly when the stored rectangle of some workspace differed from  *)
(* rect before the call.                                                   *)
C21_ResizeAll ==
    /\ [](\A area \in Areas :
            LET r == resize(nodes, trees, area)
            IN  ~r.panic =>
                   /\ r.ret = (\E t \in DOMAIN trees : trees[t].area # area)
                   /\ DOMAIN r.trees = DOMAIN trees
                   /\ \A t \in DOMAIN trees : r.trees[t].area = area)
    /\ [][\A area \in Areas :
          (Resize(area) /\ ~aborted') =>
             /\ DOMAIN trees' = DOMAIN trees
             /\ \A t \in DOMAIN trees :
                   /\ trees'[t].area = area
                   /\ trees'[t].root = trees[t].root
                   /\ trees'[t].nodes = trees[t].nodes
                   /\ nodes[trees[t].root].children # <<>> =>
                         nodes'[trees[t].root].area = area
             /\ LayoutIsFresh(nodes', trees')
             /\ DOMAIN nodes' = DOMAIN nodes
             /\ \A k \in DOMAIN nodes :
                   /\ nodes'[k].children = nodes[k].children
                   /\ nodes'[k].parent = nodes[k].parent]_vars

\* two workspaces with panes of which one already holds a rectangle and the
\* other does not: resize to that rectangle returns true, changes the
\* second alone and must not stop at the first
C21_Witness ==
    \E area \in Areas, t1 \in DOMAIN trees, t2 \in DOMAIN trees :
        /\ t1 < t2
        /\ trees[t1].area = area
        /\ trees[t2].area # area
        /\ nodes[trees[t1].root].children # <<>>
        /\ nodes[trees[t2].root].children # <<>>
        /\ resize(nodes, trees, area).ret = TRUE

(* C22: transpose(tab) flips the axis of one container, the parent of the  *)
(* workspace's focus, leaves every children list, parent field and focus   *)
(* as they were, and after it the rectangles of every workspace are those  *)
(* of a fresh layout pass.                                                 *)
C22_Transpose ==
    [][\A tab \in DOMAIN trees :
          (Transpose(tab) /\ ~aborted') =>
             LET P == nodes[trees[tab].focus].parent
             IN  /\ IsContainer(nodes, P)
                 /\ nodes'[P].layout # nodes[P].layout
                 /\ nodes'[P].layout \in Layouts
                 /\ DOMAIN nodes' = DOMAIN nodes
                 /\ \A k \in DOMAIN nodes :
                       /\ k # P => nodes'[k].layout = nodes[k].layout
                       /\ nodes'[k].children = nodes[k].children
                       /\ nodes'[k].parent = nodes[k].parent
                       /\ nodes'[k].kind = nodes[k].kind
                 /\ trees' = trees
                 /\ LayoutIsFresh(nodes', trees')]_vars

\* a root, made Vertical by new_tree, is Horizontal and holds two children
\* or more
C22_Witness ==
    \E tab \in DOMAIN trees :
        /\ nodes[trees[tab].root].layout = "Horizontal"
        /\ Len(nodes[trees[tab].root].children) >= 2

(* C23: new_tab adds one workspace whose root is an empty container and    *)
(* its own parent, whose focus is that root, whose member-set is {root}    *)
(* and whose rectangle is the one handed to new_tree (the active           *)
(* workspace's); it becomes the active workspace and every workspace there *)
(* was, and every node of the arena, is unchanged.                         *)
C23_NewTab ==
    [][NewTab =>
          \E tab \in DOMAIN trees' \ DOMAIN trees :
             LET root == trees'[tab].root
             IN  /\ DOMAIN trees' = DOMAIN trees \cup {tab}
                 /\ DOMAIN nodes' = DOMAIN nodes \cup {root}
                 /\ root \notin DOMAIN nodes
                 /\ nodes'[root].kind = "Container"
                 /\ nodes'[root].children = <<>>
                 /\ nodes'[root].parent = root
                 /\ trees'[tab].focus = root
                 /\ trees'[tab].nodes = {root}
                 /\ trees'[tab].id = tab
                 /\ trees'[tab].area = trees[focus].area
                 /\ focus' = tab
                 /\ \A t \in DOMAIN trees : trees'[t] = trees[t]
                 /\ \A k \in DOMAIN nodes : nodes'[k] = nodes[k]]_vars

\* a second workspace, active and still without panes, beside a first that
\* holds panes
C23_Witness ==
    /\ Cardinality(DOMAIN trees) = 2
    /\ focus = 2
    /\ nodes[trees[2].root].children = <<>>
    /\ trees[2].focus = trees[2].root
    /\ nodes[trees[1].root].children # <<>>

----------------------------------------------------------------------------
(* close_workspace, of which tree.rs holds no code: modelled from its      *)
(* description. Refused when `id` is the only workspace; otherwise every   *)
(* member node leaves the arena, the tree leaves the set and, had it been  *)
(* the active one, the workspace before it in key order (the last one when *)
(* none precedes) becomes active. `ret` is None or the active workspace.   *)

\* close_workspace that leaves the active id as it was
close_workspace_KeepActive(ns, ts, active, id) ==
    IF Cardinality(DOMAIN ts) <= 1
    THEN [nodes |-> ns, trees |-> ts, focus |-> active, ret |-> None]
    ELSE [nodes |-> [k \in DOMAIN ns \ ts[id].nodes |-> ns[k]],
          trees |-> [t \in DOMAIN ts \ {id} |-> ts[t]],
          focus |-> active, ret |-> active]

close_workspace(ns, ts, active, id) ==
    IF Cardinality(DOMAIN ts) <= 1
    THEN [nodes |-> ns, trees |-> ts, focus |-> active, ret |-> None]
    ELSE LET rest   == DOMAIN ts \ {id}
             before == {t \in rest : t < id}
             Max(S) == CHOOSE k \in S : \A j \in S : j <= k
             to     == IF active # id THEN active
                       ELSE IF before # {} THEN Max(before) ELSE Max(rest)
         IN  [nodes |-> [k \in DOMAIN ns \ ts[id].nodes |-> ns[k]],
              trees |-> [t \in rest |-> ts[t]],
              focus |-> to, ret |-> to]

CloseWorkspace(tab) ==
    /\ ~aborted
    /\ tab \in DOMAIN trees
    /\ LET r == close_workspace(nodes, trees, focus, tab)
       IN  /\ nodes' = r.nodes
           /\ trees' = r.trees
           /\ focus' = r.focus
    /\ UNCHANGED <<nextKey, nextTab, aborted>>

CloseNext == Next \/ \E tab \in 1..MaxTabs : CloseWorkspace(tab)

CloseSpec == Init /\ [][CloseNext]_vars

(* C24: close_workspace on the only workspace is refused with None and     *)
(* leaves the workspaces, the arena and the active id as they are; with    *)
(* two workspaces, closing either succeeds, takes every member node of the *)
(* closed one out of the arena, keeps the other workspace and its nodes    *)
(* untouched and leaves it the active one.                                 *)
C24_CloseWorkspace ==
    /\ [](\A tab \in DOMAIN trees :
            Cardinality(DOMAIN trees) = 1 =>
               LET r == close_workspace(nodes, trees, focus, tab)
               IN  /\ r.ret = None
                   /\ r.trees = trees
                   /\ r.nodes = nodes
                   /\ r.focus = focus)
    /\ [][\A tab \in DOMAIN trees :
          (CloseWorkspace(tab) /\ Cardinality(DOMAIN trees) = 2) =>
             \E other \in DOMAIN trees \ {tab} :
                /\ close_workspace(nodes, trees, focus, tab).ret = other
                /\ DOMAIN trees' = {other}
                /\ trees'[other] = trees[other]
                /\ focus' = other
                /\ trees[tab].nodes \cap DOMAIN nodes' = {}
                /\ \A k \in trees[other].nodes :
                      k \in DOMAIN nodes' /\ nodes'[k] = nodes[k]]_vars

\* one workspace is left of the two there were, and it holds panes
C24_Witness ==
    /\ ~aborted
    /\ Cardinality(DOMAIN trees) = 1
    /\ nextTab > 2
    /\ \E t \in DOMAIN trees : nodes[trees[t].root].children # <<>>

----------------------------------------------------------------------------
(* C25: traverse(tab) yields every pane reachable from the workspace's     *)
(* root exactly once, depth first in pre-order along the children lists,   *)
(* and never a container; traverse(tab).rev() yields the same panes in     *)
(* exactly the reverse order.                                              *)
C25_TraversePreOrder ==
    \A tab \in DOMAIN trees :
        LET fwd  == traverse(nodes, trees, tab)
            back == traverse_rev(nodes, trees, tab)
            root == trees[tab].root
        IN  /\ fwd = PreOrder(nodes, root)
            /\ \A i \in 1..Len(fwd) : IsView(nodes, fwd[i])
            /\ \A i, j \in 1..Len(fwd) : fwd[i] = fwd[j] => i = j
            /\ Range(fwd) = {k \in Descendants(nodes, root) : IsView(nodes, k)}
            /\ back = Reverse(fwd)

\* three panes or more, one of them below a nested container that is not
\* the root's last child
C25_Witness ==
    \E tab \in DOMAIN trees :
        LET fwd == traverse(nodes, trees, tab)
            top == nodes[trees[tab].root].children
        IN  /\ Len(fwd) >= 3
            /\ \E i \in 1..Len(top) :
                  /\ i < Len(top)
                  /\ IsContainer(nodes, top[i])
                  /\ Len(nodes[top[i]].children) >= 2

----------------------------------------------------------------------------
(* C26: split on a workspace without panes, whose focus is its root,       *)
(* completes without a panic for either axis asked for and either axis of  *)
(* the root, and leaves a workspace whose only pane is the new one, which  *)
(* holds the focus, the root still being its own parent.                   *)
C26_SplitOnEmpty ==
    [][\A tab \in DOMAIN trees, layout \in Layouts :
          LET root == trees[tab].root
          IN  (/\ nodes[root].children = <<>>
               /\ trees[tab].focus = root
               /\ Split(tab, layout)) =>
                 /\ ~aborted'
                 /\ traverse(nodes', trees', tab) = <<nextKey>>
                 /\ trees'[tab].focus = nextKey
                 /\ IsView(nodes', nextKey)
                 /\ nodes'[root].parent = root]_vars

----------------------------------------------------------------------------
\* rectangle a lies inside rectangle R (unbounded integers)
Inside(a, R) ==
    /\ R.x <= a.x
    /\ R.y <= a.y
    /\ a.x + a.width <= R.x + R.width
    /\ a.y + a.height <= R.y + R.height

\* every pane of the workspace lies inside the workspace's rectangle
PanesInside(tab) ==
    \A k \in Range(traverse(nodes, trees, tab)) :
        Inside(nodes[k].area, trees[tab].area)

(* C27: after a layout pass over a workspace with rectangle R, whatever    *)
(* the shape and size of its tree, no rectangle computation of the pass    *)
(* has left the u16 range and every pane's rectangle lies inside R.        *)
C27_LayoutInRange ==
    \A tab \in DOMAIN trees :
        /\ ~recalculate_tab(nodes, trees, tab).ovf
        /\ PanesInside(tab)

----------------------------------------------------------------------------
\* rectangle t lies entirely on side `direction` of rectangle s
OnSide(t, s, direction) ==
    CASE direction = "Right" -> t.x >= s.x + s.width
      [] direction = "Left"  -> t.x + t.width <= s.x
      [] direction = "Down"  -> t.y >= s.y + s.height
      [] direction = "Up"    -> t.y + t.height <= s.y

(* C28: in a state where every pane of the workspace lies inside the       *)
(* workspace's rectangle, find_split_in_direction from the focused pane    *)
(* hits no unreachable!() and, when it returns a pane t, t is a pane of    *)
(* the same workspace, is not the start, and its rectangle lies entirely   *)
(* on the asked side of the start's rectangle.                             *)
C28_NeighbourOnSide ==
    \A tab \in DOMAIN trees, direction \in Directions :
        LET start == trees[tab].focus
        IN  (IsView(nodes, start) /\ PanesInside(tab)) =>
               LET t == find_split_in_direction(nodes, trees, tab, start, direction)
               IN  /\ t # Unreachable
                   /\ t # None =>
                         /\ IsView(nodes, t)
                         /\ t \in trees[tab].nodes
                         /\ t \in Range(traverse(nodes, trees, tab))
                         /\ t # start
                         /\ OnSide(nodes[t].area, nodes[start].area, direction)

\* the search climbs past the focus's own container and comes down in a
\* pane under another parent
C28_Witness ==
    \E tab \in DOMAIN trees, direction \in Directions :
        LET start == trees[tab].focus
        IN  /\ IsView(nodes, start)
            /\ PanesInside(tab)
            /\ nodes[start].parent # trees[tab].root
            /\ LET t == find_split_in_direction(nodes, trees, tab, start, direction)
               IN  /\ t \notin {None, Unreachable}
                   /\ nodes[t].parent # nodes[start].parent

----------------------------------------------------------------------------
(* C29: in every state reached after a completed operation, every node of  *)
(* the arena is reachable along children lists from the root of exactly    *)
(* one workspace (remove leaves no detached pane or container behind), and *)
(* every id in a children list is a key of the arena.                      *)
C29_NoLeakNoDangling ==
    /\ \A k \in DOMAIN nodes :
          Cardinality({t \in DOMAIN trees :
                          k \in Descendants(nodes, trees[t].root)}) = 1
    /\ \A k \in DOMAIN nodes :
          \A c \in Range(nodes[k].children) : c \in DOMAIN nodes

\* a node has been removed (fewer nodes are left than keys were handed out)
\* from an arena where a container made by split hangs below a root
C29_Witness ==
    /\ ~aborted
    /\ Cardinality(DOMAIN nodes) < nextKey - 1
    /\ \E tab \in DOMAIN trees :
          \E c \in Range(nodes[trees[tab].root].children) : IsContainer(nodes, c)

----------------------------------------------------------------------------
(* C30: for every workspace, in every state reached by insert, split,      *)
(* remove, swap and transpose, tab_views yields the panes that traverse    *)
(* yields, and flags exactly one of them as focused when the workspace has *)
(* a pane.                                                                 *)
C30_ViewsAgree ==
    \A tab \in DOMAIN trees :
        LET views == tab_views(nodes, trees, tab)
            order == traverse(nodes, trees, tab)
        IN  /\ ~tab_views_panics(nodes, trees, tab)
            /\ {p[1] : p \in views} = {nodes[k].view : k \in Range(order)}
            /\ order # <<>> => Cardinality({p \in views : p[2]}) = 1

----------------------------------------------------------------------------
\* every workspace but `tab` has the tree record it had and every node
\* below its root is as it was
OthersUnchanged(tab) ==
    \A t \in DOMAIN trees \ {tab} :
        /\ t \in DOMAIN trees'
        /\ trees'[t] = trees[t]
        /\ \A k \in Descendants(nodes, trees[t].root) \cup trees[t].nodes :
              k \in DOMAIN nodes' /\ nodes'[k] = nodes[k]

(* C31: insert, split, remove, swap_split_in_direction and resize_tab      *)
(* addressed to one workspace leave the children lists, parent fields,     *)
(* focus, member-set, stored rectangle and node rectangles of every other  *)
(* workspace as they were, although insert, split and remove end with a    *)
(* layout pass over all the workspaces.                                    *)
C31_OtherWorkspacesUntouched ==
    [][\A tab \in DOMAIN trees :
          ((\/ Insert(tab)
            \/ \E layout \in Layouts : Split(tab, layout)
            \/ \E index \in Panes(tab) : Remove(tab, index)
            \/ \E direction \in Directions : Swap(tab, direction)
            \/ \E area \in Areas : ResizeTab(tab, area))
           /\ ~aborted') => OthersUnchanged(tab)]_vars

\* two workspaces with different stored rectangles, each with a pane of its
\* own: the second got its pane while the first was laid out for another
\* rectangle
C31_Witness ==
    /\ ~aborted
    /\ \E t1, t2 \in DOMAIN trees :
          /\ t1 # t2
          /\ trees[t1].area # trees[t2].area
          /\ nodes[trees[t1].root].children # <<>>
          /\ nodes[trees[t2].root].children # <<>>
          /\ \A k \in Range(nodes[trees[t1].root].children) :
                Inside(nodes[k].area, trees[t1].area)

----------------------------------------------------------------------------
(* C32: after insert or split on a workspace that has a pane, the          *)
(* traversal of the workspace is the traversal before the call with the    *)
(* new pane placed right after the pane that held the focus; the panes     *)
(* there were keep their relative order.                                   *)
C32_NewPaneAfterFocus ==
    [][\A tab \in DOMAIN trees :
          LET old == traverse(nodes, trees, tab)
              at  == Position(old, trees[tab].focus)
          IN  (/\ old # <<>>
               /\ Insert(tab) \/ \E layout \in Layouts : Split(tab, layout)
               /\ ~aborted') =>
                 /\ at >= 0
                 /\ traverse(nodes', trees', tab) = InsertAt(old, at + 1, nextKey)]_vars

\* a workspace of three panes or more whose focus, the newest pane, is
\* neither the first nor the last of the traversal and sits below a
\* container made by split
C32_Witness ==
    \E tab \in DOMAIN trees :
        LET order == traverse(nodes, trees, tab)
            at    == Position(order, trees[tab].focus)
        IN  /\ Len(order) >= 3
            /\ at >= 1
            /\ at + 1 < Len(order)
            /\ trees[tab].focus = nextKey - 1
            /\ nodes[trees[tab].focus].parent # trees[tab].root

----------------------------------------------------------------------------
(* C33: whenever a workspace holds exactly one pane, directly under the    *)
(* root or below single-child containers that removals have left, the      *)
(* pane's rectangle after the layout pass is the workspace's rectangle.    *)
C33_SinglePaneFillsWorkspace ==
    \A tab \in DOMAIN trees :
        LET order == traverse(nodes, trees, tab)
        IN  Len(order) = 1 => nodes[order[1]].area = trees[tab].area

\* the only pane of a workspace sits below a container that is the root's
\* only child
C33_Witness ==
    \E tab \in DOMAIN trees :
        LET order == traverse(nodes, trees, tab)
            root  == trees[tab].root
        IN  /\ Len(order) = 1
            /\ Len(nodes[root].children) = 1
            /\ IsContainer(nodes, nodes[root].children[1])
            /\ nodes[order[1]].parent = nodes[root].children[1]

----------------------------------------------------------------------------
(* C34: in every state reached by completed operations,                    *)
(* find_split_in_direction terminates from every member pane: the upward   *)
(* recursion follows the parent fields over containers to the workspace's  *)
(* self-parented root without standing on a node twice, within as many     *)
(* calls as the arena has nodes, and the descent of find_child from any    *)
(* child of a node on that way ends at a pane within as many steps; from   *)
(* the focused pane the search returns in every direction.                 *)
C34_SearchTerminates ==
    \A tab \in DOMAIN trees :
        LET N    == Cardinality(DOMAIN nodes)
            root == trees[tab].root
        IN  \A start \in Panes(tab) :
               LET path == Ascent(nodes, start, N)
               IN  /\ path[Len(path)] = root
                   /\ nodes[root].parent = root
                   /\ Len(path) <= N
                   /\ \A i, j \in 1..Len(path) : path[i] = path[j] => i = j
                   /\ \A i \in 2..Len(path) : IsContainer(nodes, path[i])
                   /\ \A i \in 2..Len(path), q \in Panes(tab) :
                         \A c \in Range(nodes[path[i]].children) :
                            IsView(nodes, DescentEnd(nodes, c, nodes[q].area.x,
                                                     nodes[q].area.y, N))
                   /\ start = trees[tab].focus =>
                         \A direction \in Directions :
                            find_split_in_direction(nodes, trees, tab, start, direction)
                               # Unreachable

\* a pane two levels below the root, whose container has a sibling under
\* the root for find_child to start from
C34_Witness ==
    \E tab \in DOMAIN trees :
        \E start \in Panes(tab) :
           LET path == Ascent(nodes, start, Cardinality(DOMAIN nodes))
           IN  /\ Len(path) >= 3
               /\ path[Len(path)] = trees[tab].root
               /\ \E c \in Range(nodes[trees[tab].root].children) :
                     c # path[Len(path) - 1]

====
